---- MODULE Spec2Model ----
(***************************************************************************)
(* Call Session Controller of the voice agent: Transcript Gate, Speech     *)
(* State Tracker, Turn Counter, Tool Invocation Layer, Shutdown Pipeline   *)
(* and the per-phone rate limiter, as implemented in agents/inbound.py,    *)
(* agents/outbound.py, agents/base.py, agents/tools.py, utils.py and the   *)
(* single-file agent.py.                                                   *)
(***************************************************************************)
EXTENDS Integers, Sequences, FiniteSets, TLC

(* ------------------------------ bounds -------------------------------- *)
MaxTurnsCfg == 3         \* the session's configured max_turns
MaxUtterances == 5       \* accepted utterances explored per session
MaxInterrupts == 1       \* agent_speech_interrupted events explored
MaxDisconnects == 1      \* participant_disconnected events explored
MaxToolCalls == 2        \* tool invocations explored per session
MaxRateCalls == 7        \* is_rate_limited calls explored per run
MaxPeerUtterances == 2   \* accepted utterances explored in the second session
MaxTicks == 2            \* clock advances explored per run

(* ------------------------- program constants -------------------------- *)
RATE_LIMIT_CALLS == 5
RATE_LIMIT_WINDOW == 3600
MIN_TRANSCRIPT_LEN == 3

NULL == "None"
NoIntent == [is_none |-> TRUE]      \* booking_intent = None

(* ------------------------ Python str operations ----------------------- *)
UpperChars == "ABCDEFGHIJKLMNOPQRSTUVWXYZ"
LowerChars == "abcdefghijklmnopqrstuvwxyz"

CharAt(s, i) == SubSeq(s, i, i)

LowerChar(c) ==
    IF \E i \in 1..Len(UpperChars) : CharAt(UpperChars, i) = c
    THEN CharAt(LowerChars, CHOOSE i \in 1..Len(UpperChars) : CharAt(UpperChars, i) = c)
    ELSE c

RECURSIVE Lower(_)
Lower(s) == IF s = "" THEN "" ELSE LowerChar(CharAt(s, 1)) \o Lower(Tail(s))

IsSpace(c) == c = " "

RECURSIVE LStrip(_)
LStrip(s) == IF s # "" /\ IsSpace(CharAt(s, 1)) THEN LStrip(Tail(s)) ELSE s

RECURSIVE RStripChar(_, _)
RStripChar(s, c) ==
    IF s # "" /\ CharAt(s, Len(s)) = c THEN RStripChar(SubSeq(s, 1, Len(s) - 1), c) ELSE s

Strip(s) == RStripChar(LStrip(s), " ")

StartsWith(s, p) == Len(p) <= Len(s) /\ SubSeq(s, 1, Len(p)) = p

Contains(s, p) == \E i \in 1..(Len(s) - Len(p) + 1) : SubSeq(s, i, i + Len(p) - 1) = p

\* str.replace(old, new): leftmost non-overlapping occurrences, one pass
RECURSIVE Replace(_, _, _)
Replace(s, old, new) ==
    IF s = "" THEN ""
    ELSE IF StartsWith(s, old) THEN new \o Replace(SubSeq(s, Len(old) + 1, Len(s)), old, new)
    ELSE CharAt(s, 1) \o Replace(Tail(s), old, new)

\* s.split("@")[-1]: the text after the last "@", the whole text without one
RECURSIVE AfterLastAt(_)
AfterLastAt(s) ==
    IF Contains(s, "@") THEN AfterLastAt(SubSeq(s, 1 + (CHOOSE i \in 1..Len(s) : CharAt(s, i) = "@" /\ \A j \in 1..(i-1) : CharAt(s, j) # "@"), Len(s)))
    ELSE s

(* --------------------------- Transcript Gate -------------------------- *)
FILLER_WORDS ==
    { "okay.", "okay", "ok", "uh", "hmm", "hm", "yeah", "yes",
      "no", "um", "ah", "oh", "right", "sure", "fine", "good",
      "haan", "han", "theek", "theek hai", "accha", "ji", "ha" }

\* a gate that compares with the filler words without lower-casing
TranscriptGate_CaseSensitive(text, speaking) ==
    LET transcript == Strip(text)
        transcript_lower == RStripChar(transcript, ".")
    IN  IF speaking THEN "echo"
        ELSE IF transcript = "" \/ Len(transcript) < MIN_TRANSCRIPT_LEN THEN "short"
        ELSE IF transcript_lower \in FILLER_WORDS THEN "filler"
        ELSE "accept"

\* a gate whose length test is off by one
TranscriptGate_ShortByOne(text, speaking) ==
    LET transcript == Strip(text)
        transcript_lower == RStripChar(Lower(transcript), ".")
    IN  IF speaking THEN "echo"
        ELSE IF transcript = "" \/ Len(transcript) < MIN_TRANSCRIPT_LEN - 1 THEN "short"
        ELSE IF transcript_lower \in FILLER_WORDS THEN "filler"
        ELSE "accept"

\* a gate without the echo filter
TranscriptGate_NoEcho(text, speaking) ==
    LET transcript == Strip(text)
        transcript_lower == RStripChar(Lower(transcript), ".")
    IN  IF transcript = "" \/ Len(transcript) < MIN_TRANSCRIPT_LEN THEN "short"
        ELSE IF transcript_lower \in FILLER_WORDS THEN "filler"
        ELSE "accept"

\* the verdict of on_user_speech's three filters, in the code's order
TranscriptGate(text, speaking) ==
    LET transcript == Strip(text)
        transcript_lower == RStripChar(Lower(transcript), ".")
    IN  IF speaking THEN "echo"
        ELSE IF transcript = "" \/ Len(transcript) < MIN_TRANSCRIPT_LEN THEN "short"
        ELSE IF transcript_lower \in FILLER_WORDS THEN "filler"
        ELSE "accept"

\* the limiter's test after the increment
WrapUpDue(turns, max_turns) == turns >= max_turns

(* -------------------------- normalize_email --------------------------- *)
\* apply str.replace for each (old, new) pair of a list, left to right
RECURSIVE ReplaceAll(_, _)
ReplaceAll(s, pairs) ==
    IF pairs = <<>> THEN s
    ELSE ReplaceAll(Replace(s, Head(pairs)[1], Head(pairs)[2]), Tail(pairs))

SpokenAt == << <<"at the rate of", "@">>, <<"at the rate", "@">>, <<"at rate", "@">>,
               <<" at ", "@">>, <<" eta ", "@">> >>
SpokenDot == << <<" dot ", ".">>, <<" period ", ".">> >>
DomainFixes == << <<"gmial", "gmail">>, <<"gmal", "gmail">>, <<"gmai", "gmail">>,
                  <<"yaho", "yahoo">>, <<"hotmal", "hotmail">>,
                  <<".con", ".com">>, <<".coom", ".com">> >>

normalize_email(raw_email) ==
    LET e0 == Strip(Lower(raw_email))
        e1 == ReplaceAll(e0, SpokenAt)
        e2 == ReplaceAll(e1, SpokenDot)
        e3 == Replace(e2, " ", "")
    IN  ReplaceAll(e3, DomainFixes)

\* a validation that only looks for the "@"
EmailLooksInvalid_AtOnly(email) ==
    ~Contains(email, "@")

\* the "basic validation" test of save_booking_intent
EmailLooksInvalid(email) == ~Contains(email, "@") \/ ~Contains(AfterLastAt(email), ".")

(* ----------------------------- rate limiter --------------------------- *)
\* the list comprehension that prunes timestamps older than the window
RECURSIVE Prune(_, _)
Prune(ts, t) ==
    IF ts = <<>> THEN <<>>
    ELSE IF t - Head(ts) < RATE_LIMIT_WINDOW THEN <<Head(ts)>> \o Prune(Tail(ts), t)
    ELSE Prune(Tail(ts), t)

ExemptPhones == {"unknown", "demo"}

\* a limiter that records the time of a rejected call as well
RateLimitCheck_RecordsRejected(stamps, phone, t) ==
    IF phone \in ExemptPhones THEN [limited |-> FALSE, stamps |-> stamps]
    ELSE LET pruned == Prune(stamps[phone], t)
         IN  [limited |-> Len(pruned) >= RATE_LIMIT_CALLS,
              stamps |-> [stamps EXCEPT ![phone] = Append(pruned, t)]]

\* a limiter that compares with > and so admits one call too many
RateLimitCheck_OffByOne(stamps, phone, t) ==
    IF phone \in ExemptPhones THEN [limited |-> FALSE, stamps |-> stamps]
    ELSE LET pruned == Prune(stamps[phone], t)
         IN  IF Len(pruned) > RATE_LIMIT_CALLS
             THEN [limited |-> TRUE, stamps |-> [stamps EXCEPT ![phone] = pruned]]
             ELSE [limited |-> FALSE, stamps |-> [stamps EXCEPT ![phone] = Append(pruned, t)]]

\* is_rate_limited(phone) at time t: the return value and the new dictionary
RateLimitCheck(stamps, phone, t) ==
    IF phone \in ExemptPhones THEN [limited |-> FALSE, stamps |-> stamps]
    ELSE LET pruned == Prune(stamps[phone], t)
         IN  IF Len(pruned) >= RATE_LIMIT_CALLS
             THEN [limited |-> TRUE, stamps |-> [stamps EXCEPT ![phone] = pruned]]
             ELSE [limited |-> FALSE, stamps |-> [stamps EXCEPT ![phone] = Append(pruned, t)]]

(* ------------------------------- inputs ------------------------------- *)
Entrypoints == {"inbound", "outbound", "agent"}
Phones == {"unknown", "demo", "+911"}
Transcripts == {"Hello", "tomorrow", "Okay.", "okay", " ji ", "Ji.", "haan", "HAAN", "hi", "",
                "OK..", "yes please"}
StartTimes == {"T10", "T11"}
CallerNames == {"Asha", "Ravi"}
NoteTexts == {"", "vip"}
Emails == {"a@b.com", "not-an-email", "a at b dot com", "A@B", "r@gmal.con", "a@gmail.com"}
TickSteps == {1, RATE_LIMIT_WINDOW - 1}

(* -------------------------------- state ------------------------------- *)
VARIABLES
    entry,              \* which entrypoint serves the job
    pc,                 \* position of the entrypoint coroutine
    abort_reason,       \* why the entrypoint ended before going live
    caller_phone,       \* extract_caller_info's phone
    max_turns,          \* live_config max_turns
    egress_id,          \* whether a recording egress is active
    n8n_url,            \* whether N8N_WEBHOOK_URL is set
    agent_tool_set,     \* tools handed to the Agent (find_function_tools)
    agent_is_speaking,  \* module-level speaking flag
    playing,            \* the agent's speech playback is in progress
    turn_count,
    interrupt_count,
    user_log,           \* log_transcript_entry tasks created for user text
    wrapups,            \* turn numbers at which the wrap-up reply was requested
    gate_last,          \* last committed transcript: text, flag on arrival, verdict
    booking_intent,     \* agent_tools.booking_intent
    tools_caller_name,  \* agent_tools.caller_name
    tool_calls,         \* tool invocations so far
    tool_last,          \* last tool invocation: name, arguments, result
    sip_requests,       \* transfer_sip_participant requests sent to the transport
    shutdown_done,      \* _shutdown_done guard of _do_shutdown
    disconnects,        \* participant_disconnected events delivered
    job_shutdown,       \* the job's shutdown callbacks have been invoked
    unheard,            \* a disconnect or job shutdown came before the handlers existed
    hooks,              \* shutdown coroutines: position and locals
    running,            \* coroutine inside a synchronous stretch (0: none)
    booking_calls,      \* async_create_booking invocations
    notifications,      \* notify_* invocations
    call_logs,          \* save_call_log invocations with their arguments
    webhooks,           \* n8n webhook payloads posted
    active_status,      \* active_calls row status
    now,                \* time.time()
    ticks,
    call_timestamps,    \* _call_timestamps
    rate_calls,         \* is_rate_limited invocations
    rate_last,          \* last is_rate_limited call: phone, result, prior count
    admitted,           \* every admitted call's time, per phone (never pruned)
    peer_turn_count,    \* turn_count of a second session served by the same process
    peer_gate_last      \* that session's last committed transcript and verdict

confVars == <<entry, caller_phone, max_turns, egress_id, n8n_url>>
convVars == <<agent_is_speaking, playing, turn_count, interrupt_count, user_log, wrapups, gate_last>>
toolVars == <<booking_intent, tools_caller_name, tool_calls, tool_last, sip_requests>>
shutVars == <<shutdown_done, disconnects, job_shutdown, unheard, hooks, running>>
effectVars == <<booking_calls, notifications, call_logs, webhooks, active_status>>
rateVars == <<now, ticks, call_timestamps, rate_calls, rate_last, admitted>>
peerVars == <<peer_turn_count, peer_gate_last>>
vars == <<pc, abort_reason, agent_tool_set, confVars, convVars, toolVars, shutVars, effectVars,
          rateVars, peerVars>>

\* the functions above tabulated once over the inputs the actions draw from
GateTable == [t \in Transcripts, sp \in BOOLEAN |-> TranscriptGate(t, sp)]
EmailTable == [e \in Emails |-> normalize_email(e)]

(* --------------------------- initial states --------------------------- *)
SessionPhones == {"+911"}

NoRateCall == [phone |-> NULL, limited |-> FALSE, prior |-> 0]
NoToolCall == [name |-> NULL, args |-> <<>>, before |-> NoIntent, result |-> NULL]
NoTranscript == [text |-> NULL, speaking |-> FALSE, verdict |-> NULL]

InitCommon ==
    /\ caller_phone \in SessionPhones
    /\ max_turns = MaxTurnsCfg
    /\ abort_reason = NULL
    /\ agent_tool_set = {}
    /\ agent_is_speaking = FALSE /\ playing = FALSE
    /\ turn_count = 0 /\ interrupt_count = 0 /\ user_log = 0 /\ wrapups = <<>>
    /\ gate_last = NoTranscript
    /\ booking_intent = NoIntent /\ tools_caller_name = ""
    /\ tool_calls = 0 /\ tool_last = NoToolCall /\ sip_requests = <<>>
    /\ shutdown_done = FALSE /\ disconnects = 0 /\ job_shutdown = FALSE /\ unheard = FALSE
    /\ hooks = <<>> /\ running = 0
    /\ booking_calls = <<>> /\ notifications = <<>>
    /\ call_logs = <<>> /\ webhooks = <<>> /\ active_status = NULL
    /\ now = 0 /\ ticks = 0
    /\ call_timestamps = [p \in Phones |-> <<>>]
    /\ rate_calls = 0 /\ rate_last = NoRateCall
    /\ admitted = [p \in Phones |-> <<>>]
    /\ peer_turn_count = 0 /\ peer_gate_last = NoTranscript

\* a job has been dispatched to one of the entrypoints and ctx.connect() returned
Init ==
    /\ InitCommon
    /\ entry \in Entrypoints
    /\ egress_id \in BOOLEAN
    /\ n8n_url \in BOOLEAN
    /\ pc = "connected"

(* ----------------------------- rate limiter --------------------------- *)
\* admitted calls of a phone that are still inside the window at time t
RECURSIVE CountRecent(_, _)
CountRecent(ts, t) ==
    IF ts = <<>> THEN 0
    ELSE (IF t - Head(ts) < RATE_LIMIT_WINDOW THEN 1 ELSE 0) + CountRecent(Tail(ts), t)

\* one call of is_rate_limited(phone): the dictionary update and its record
IsRateLimited(phone) ==
    LET r == RateLimitCheck(call_timestamps, phone, now)
    IN  /\ call_timestamps' = r.stamps
        /\ rate_calls' = rate_calls + 1
        /\ rate_last' = [phone |-> phone, limited |-> r.limited,
                         prior |-> CountRecent(admitted[phone], now)]
        /\ admitted' = IF r.limited THEN admitted
                       ELSE [admitted EXCEPT ![phone] = Append(@, now)]

\* time.time() moves forward between calls
Tick(d) ==
    /\ ticks < MaxTicks
    /\ now' = now + d
    /\ ticks' = ticks + 1
    /\ UNCHANGED <<pc, abort_reason, agent_tool_set, confVars, peerVars, convVars, toolVars,
                   shutVars, effectVars, call_timestamps, rate_calls, rate_last, admitted>>

\* a job for some phone reaches the rate-limit check of an entrypoint
CallIsRateLimited(phone) ==
    /\ pc = "idle"
    /\ rate_calls < MaxRateCalls
    /\ IsRateLimited(phone)
    /\ UNCHANGED <<pc, abort_reason, agent_tool_set, confVars, peerVars, convVars, toolVars,
                   shutVars, effectVars, now, ticks>>

(* ------------------------------ entrypoint ---------------------------- *)
ToolNames == {"transfer_call", "end_call", "save_booking_intent",
              "check_availability", "get_business_hours"}

StartOutcomes(e) == IF e = "agent" THEN {"ok", "error"} ELSE {"ok", "timeout", "error"}

\* caller extraction, rate-limit check, config, caller memory, tools, session.start
Entrypoint(outcome) ==
    /\ pc = "connected"
    /\ outcome \in StartOutcomes(entry)
    /\ IsRateLimited(caller_phone)
    /\ LET limited == RateLimitCheck(call_timestamps, caller_phone, now).limited
       IN  IF limited
           THEN /\ pc' = "aborted" /\ abort_reason' = "rate_limited"
                /\ UNCHANGED agent_tool_set
           ELSE IF entry = "outbound"
           THEN \* get_caller_history(caller_phone, sub_account_id) against a
                \* one-parameter definition: TypeError leaves the entrypoint
                /\ pc' = "aborted" /\ abort_reason' = "type_error"
                /\ UNCHANGED agent_tool_set
           ELSE IF outcome = "ok"
           THEN /\ pc' = "started" /\ UNCHANGED abort_reason
                /\ agent_tool_set' = ToolNames
           ELSE /\ pc' = "aborted"
                /\ abort_reason' = IF outcome = "timeout" THEN "start_timeout" ELSE "start_error"
                /\ agent_tool_set' = ToolNames
    /\ UNCHANGED <<confVars, peerVars, convVars, toolVars, shutVars, effectVars, now, ticks>>

\* TTS pre-warm, recording start, active_calls upsert, handler registration
RegisterHandlers ==
    /\ pc = "started"
    /\ pc' = "live"
    /\ active_status' = "active"
    /\ UNCHANGED <<abort_reason, agent_tool_set, confVars, peerVars, convVars, toolVars, shutVars,
                   booking_calls, notifications, call_logs, webhooks, rateVars>>

Live == pc = "live" /\ running = 0

(* ------------------------- Speech State Tracker ----------------------- *)
\* session.start() runs on_enter, whose generate_reply plays the greeting;
\* the agent_speech_started handler does not exist yet
GreetingPlaybackStarted ==
    /\ pc = "started" /\ running = 0
    /\ ~playing
    /\ playing' = TRUE
    /\ UNCHANGED <<pc, abort_reason, agent_tool_set, confVars, peerVars, agent_is_speaking, turn_count,
                   interrupt_count, user_log, wrapups, gate_last, toolVars, shutVars,
                   effectVars, rateVars>>

\* playback of a reply begins: _on_speech_started
AgentSpeechStarted ==
    /\ Live
    /\ playing' = TRUE
    /\ agent_is_speaking' = TRUE
    /\ UNCHANGED <<pc, abort_reason, agent_tool_set, confVars, peerVars, turn_count, interrupt_count,
                   user_log, wrapups, gate_last, toolVars, shutVars, effectVars, rateVars>>

\* playback ends: _on_speech_finished
AgentSpeechFinished ==
    /\ Live
    /\ playing' = FALSE
    /\ agent_is_speaking' = FALSE
    /\ UNCHANGED <<pc, abort_reason, agent_tool_set, confVars, peerVars, turn_count, interrupt_count,
                   user_log, wrapups, gate_last, toolVars, shutVars, effectVars, rateVars>>

\* an interruption handler that also marks the agent as silent
AgentSpeechInterrupted_ClearsFlag ==
    /\ Live
    /\ interrupt_count < MaxInterrupts
    /\ interrupt_count' = interrupt_count + 1
    /\ agent_is_speaking' = FALSE
    /\ UNCHANGED <<pc, abort_reason, agent_tool_set, confVars, peerVars, playing,
                   turn_count, user_log, wrapups, gate_last, toolVars, shutVars, effectVars,
                   rateVars>>

\* the caller talks over the agent: _on_interrupted only counts
AgentSpeechInterrupted ==
    /\ Live
    /\ interrupt_count < MaxInterrupts
    /\ interrupt_count' = interrupt_count + 1
    /\ UNCHANGED <<pc, abort_reason, agent_tool_set, confVars, peerVars, agent_is_speaking, playing,
                   turn_count, user_log, wrapups, gate_last, toolVars, shutVars, effectVars,
                   rateVars>>

(* --------------------- Transcript Gate and limiter -------------------- *)
\* a handler that counts the turn before the filters run
OnUserSpeech_CountAll(verdict, turns, logged, limit) ==
    [user_log |-> IF verdict = "accept" THEN logged + 1 ELSE logged,
     turn_count |-> turns + 1,
     wrapup |-> verdict = "accept" /\ WrapUpDue(turns + 1, limit)]

\* the handler's effect on the counters, given the gate's verdict
OnUserSpeech(verdict, turns, logged, limit) ==
    IF verdict = "accept"
    THEN [user_log |-> logged + 1, turn_count |-> turns + 1,
          wrapup |-> WrapUpDue(turns + 1, limit)]
    ELSE [user_log |-> logged, turn_count |-> turns, wrapup |-> FALSE]

\* on_user_speech / on_user_speech_committed
UserSpeechCommitted(text) ==
    /\ Live
    /\ turn_count < MaxUtterances
    /\ LET verdict == GateTable[text, agent_is_speaking]
           r == OnUserSpeech(verdict, turn_count, user_log, max_turns)
       IN  /\ user_log' = r.user_log
           /\ turn_count' = r.turn_count
           /\ wrapups' = IF r.wrapup THEN Append(wrapups, r.turn_count) ELSE wrapups
           /\ gate_last' = [text |-> text, speaking |-> agent_is_speaking, verdict |-> verdict]
    /\ UNCHANGED <<pc, abort_reason, agent_tool_set, confVars, peerVars, agent_is_speaking, playing,
                   interrupt_count, toolVars, shutVars, effectVars, rateVars>>

(* ------------------- a second session in the same process ------------ *)
\* _agent_is_speaking is a module-level global: the on_user_speech closure of
\* every session of the process reads the same flag
PeerGateVerdict(text) == GateTable[text, agent_is_speaking]

\* the other session's on_user_speech; its turn_count is its own closure's
PeerUserSpeechCommitted(text) ==
    /\ Live
    /\ peer_turn_count < MaxPeerUtterances
    /\ LET verdict == PeerGateVerdict(text)
           r == OnUserSpeech(verdict, peer_turn_count, 0, max_turns)
       IN  /\ peer_turn_count' = r.turn_count
           /\ peer_gate_last' = [text |-> text, speaking |-> agent_is_speaking,
                                 verdict |-> verdict]
    /\ UNCHANGED <<pc, abort_reason, agent_tool_set, confVars, convVars, toolVars, shutVars,
                   effectVars, rateVars>>

\* the other session's _on_speech_started / _on_speech_finished write the global
PeerAgentSpeech(started) ==
    /\ Live
    /\ agent_is_speaking' = started
    /\ UNCHANGED <<pc, abort_reason, agent_tool_set, confVars, peerVars, playing, turn_count,
                   interrupt_count, user_log, wrapups, gate_last, toolVars, shutVars,
                   effectVars, rateVars>>

(* ------------------------ Tool Invocation Layer ----------------------- *)
CanCallTool(name) == Live /\ name \in agent_tool_set /\ tool_calls < MaxToolCalls

\* a tool that updates a saved intent, keeping old notes when none are given
SaveIntentOutcome_Merge(old, start_time, name, phone, raw_email, notes) ==
    LET email == EmailTable[raw_email]
    IN  IF EmailLooksInvalid(email)
        THEN [result |-> "respell", intent |-> old, named |-> FALSE]
        ELSE [result |-> "saved", named |-> TRUE,
              intent |-> [start_time |-> start_time, caller_name |-> name,
                          caller_phone |-> phone, caller_email |-> email,
                          notes |-> IF notes = "" /\ old # NoIntent THEN old.notes ELSE notes]]

\* save_booking_intent of agents/tools.py: normalise, validate, assign
SaveIntentOutcome(old, start_time, name, phone, raw_email, notes) ==
    LET email == EmailTable[raw_email]
    IN  IF EmailLooksInvalid(email)
        THEN [result |-> "respell", intent |-> old, named |-> FALSE]
        ELSE [result |-> "saved", named |-> TRUE,
              intent |-> [start_time |-> start_time, caller_name |-> name,
                          caller_phone |-> phone, caller_email |-> email, notes |-> notes]]

SaveBookingIntent(start_time, name, phone, raw_email, notes) ==
    /\ entry # "agent"
    /\ CanCallTool("save_booking_intent")
    /\ tool_calls' = tool_calls + 1
    /\ LET r == SaveIntentOutcome(booking_intent, start_time, name, phone, raw_email, notes)
       IN  /\ booking_intent' = r.intent
           /\ tools_caller_name' = IF r.named THEN name ELSE tools_caller_name
           /\ tool_last' = [name |-> "save_booking_intent", before |-> booking_intent,
                            result |-> r.result,
                            args |-> [start_time |-> start_time, caller_name |-> name,
                                      caller_phone |-> phone, caller_email |-> raw_email,
                                      notes |-> notes]]
    /\ UNCHANGED <<pc, abort_reason, agent_tool_set, confVars, peerVars, convVars, shutVars,
                   effectVars, rateVars, sip_requests>>

\* agent.py save_booking_intent: no email parameter, no validation
SaveBookingIntentAgent(start_time, name, phone, notes) ==
    /\ entry = "agent"
    /\ CanCallTool("save_booking_intent")
    /\ tool_calls' = tool_calls + 1
    /\ booking_intent' = [start_time |-> start_time, caller_name |-> name,
                          caller_phone |-> phone, notes |-> notes]
    /\ tools_caller_name' = name
    /\ tool_last' = [name |-> "save_booking_intent", before |-> booking_intent,
                     result |-> "saved",
                     args |-> [start_time |-> start_time, caller_name |-> name,
                               caller_phone |-> phone, notes |-> notes]]
    /\ UNCHANGED <<pc, abort_reason, agent_tool_set, confVars, peerVars, convVars, shutVars,
                   effectVars, rateVars, sip_requests>>

\* what the calendar does with the slot query of one call
CalendarReplies == {"slots", "empty", "unreachable", "bad_config"}
Dates == {"2026-03-01", "2026-03-02"}

\* calendar_tools.get_available_slots, a plain function: the slot list, or []
\* when the query failed (the except of _get_slots_calcom), or ValueError from
\* get_cal_creds, which runs before the try
GetAvailableSlots(reply) ==
    CASE reply = "slots" -> [raised |-> FALSE, slots |-> <<"10:00 AM", "11:30 AM">>]
      [] reply = "bad_config" -> [raised |-> TRUE, slots |-> <<>>]
      [] OTHER -> [raised |-> FALSE, slots |-> <<>>]

\* an await that hands the value on, as it would for a coroutine
AwaitSlots_Coroutine(call) ==
    call

\* `await get_available_slots(date)`: the call has already returned a list,
\* and awaiting a list raises TypeError
AwaitSlots(call) ==
    IF call.raised THEN call ELSE [raised |-> TRUE, slots |-> <<>>]

\* check_availability: try / if not slots / slot message / except
CheckAvailabilityOutcome(reply) ==
    LET r == AwaitSlots(GetAvailableSlots(reply))
    IN  IF r.raised THEN "fallback"
        ELSE IF r.slots = <<>> THEN "no_slots"
        ELSE "slot_list"

CheckAvailability(date, reply) ==
    /\ CanCallTool("check_availability")
    /\ tool_calls' = tool_calls + 1
    /\ tool_last' = [name |-> "check_availability", before |-> booking_intent,
                     result |-> CheckAvailabilityOutcome(reply),
                     args |-> [date |-> date, calendar |-> reply]]
    /\ UNCHANGED <<pc, abort_reason, agent_tool_set, confVars, peerVars, convVars, shutVars,
                   effectVars, rateVars, booking_intent, tools_caller_name, sip_requests>>

\* DEFAULT_TRANSFER_NUMBER ("" when unset) and VOBIZ_SIP_DOMAIN ("" when unset)
TransferNumbers == {"", "+9199", "sip:desk@pbx"}
SipDomains == {"", "vobiz"}

\* which of ctx_api, room_name and _sip_identity are set: all of them, all
\* but one, or none
Handles ==
    {hs \in [ctx_api : BOOLEAN, room_name : BOOLEAN, sip_identity : BOOLEAN] :
        Cardinality({f \in {"ctx_api", "room_name", "sip_identity"} : ~hs[f]}) \in {0, 1, 3}}

TRANSFER_OK == "Transfer initiated successfully."
TRANSFER_FAILED == "Unable to transfer right now."
CALL_ENDED == "Call ended."
HANGUP_DESTINATION == "tel:+00000000"

\* the destination transfer_call builds before its try block
TransferDestination(number, domain) ==
    LET d1 == IF number # "" /\ domain # "" /\ ~Contains(number, "@")
              THEN "sip:" \o Replace(Replace(number, "tel:", ""), "sip:", "") \o "@" \o domain
              ELSE number
    IN  IF d1 # "" /\ ~StartsWith(d1, "sip:") THEN "sip:" \o d1 ELSE d1

\* a transfer that does not look at the SIP identity before sending
TransferCallOutcome_NoIdentityCheck(number, domain, handles, transport_ok) ==
    LET destination == TransferDestination(number, domain)
    IN  IF handles.ctx_api /\ handles.room_name /\ destination # ""
        THEN [requests |-> <<[tool |-> "transfer_call", transfer_to |-> destination]>>,
              result |-> IF transport_ok THEN TRANSFER_OK ELSE TRANSFER_FAILED]
        ELSE [requests |-> <<>>, result |-> TRANSFER_FAILED]

\* transfer_call: the request is sent only with all four values present; an
\* exception of the request is caught and answered with the failure string
TransferCallOutcome(number, domain, handles, transport_ok) ==
    LET destination == TransferDestination(number, domain)
    IN  IF handles.ctx_api /\ handles.room_name /\ destination # "" /\ handles.sip_identity
        THEN [requests |-> <<[tool |-> "transfer_call", transfer_to |-> destination]>>,
              result |-> IF transport_ok THEN TRANSFER_OK ELSE TRANSFER_FAILED]
        ELSE [requests |-> <<>>, result |-> TRANSFER_FAILED]

\* end_call: a best-effort hangup request, then "Call ended." in every case
EndCallOutcome(handles, transport_ok) ==
    IF handles.ctx_api /\ handles.room_name /\ handles.sip_identity
    THEN [requests |-> <<[tool |-> "end_call", transfer_to |-> HANGUP_DESTINATION]>>,
          result |-> CALL_ENDED]
    ELSE [requests |-> <<>>, result |-> CALL_ENDED]

TransferCall(number, domain, handles, transport_ok) ==
    /\ CanCallTool("transfer_call")
    /\ tool_calls' = tool_calls + 1
    /\ LET r == TransferCallOutcome(number, domain, handles, transport_ok)
       IN  /\ sip_requests' = sip_requests \o r.requests
           /\ tool_last' = [name |-> "transfer_call", before |-> booking_intent,
                            result |-> r.result,
                            args |-> [number |-> number, domain |-> domain,
                                      handles |-> handles, transport_ok |-> transport_ok]]
    /\ UNCHANGED <<pc, abort_reason, agent_tool_set, confVars, peerVars, convVars, shutVars,
                   effectVars, rateVars, booking_intent, tools_caller_name>>

EndCall(handles, transport_ok) ==
    /\ CanCallTool("end_call")
    /\ tool_calls' = tool_calls + 1
    /\ LET r == EndCallOutcome(handles, transport_ok)
       IN  /\ sip_requests' = sip_requests \o r.requests
           /\ tool_last' = [name |-> "end_call", before |-> booking_intent,
                            result |-> r.result,
                            args |-> [handles |-> handles, transport_ok |-> transport_ok]]
    /\ UNCHANGED <<pc, abort_reason, agent_tool_set, confVars, peerVars, convVars, shutVars,
                   effectVars, rateVars, booking_intent, tools_caller_name>>

(* --------------------------- shutdown triggers ------------------------ *)
NewHook(origin) ==
    [pc |-> "scheduled", origin |-> origin, status |-> "No booking", transcript |-> "",
     sentiment |-> "unknown", sentiment_threw |-> FALSE, recording_url |-> "",
     intent |-> NoIntent]

\* handlers that would also exist after an aborted start
HandlersRegistered_AfterAbort == pc \in {"live", "aborted"}

HandlersRegistered == pc = "live"
EntrypointLeft == pc \in {"started", "live", "aborted"}

\* the room's participant_disconnected event; on_disconnect when registered
ParticipantDisconnected ==
    /\ EntrypointLeft /\ running = 0
    /\ disconnects < MaxDisconnects
    /\ disconnects' = disconnects + 1
    /\ IF HandlersRegistered
       THEN /\ agent_is_speaking' = FALSE
            /\ hooks' = Append(hooks, NewHook("disconnect"))
            /\ UNCHANGED unheard
       ELSE /\ unheard' = (unheard \/ pc = "started")
            /\ UNCHANGED <<agent_is_speaking, hooks>>
    /\ UNCHANGED <<pc, abort_reason, agent_tool_set, confVars, peerVars, playing, turn_count, interrupt_count,
                   user_log, wrapups, gate_last, toolVars, shutdown_done, job_shutdown, running,
                   effectVars, rateVars>>

\* the job shuts down: the callback given to ctx.add_shutdown_callback is awaited
JobShutdown ==
    /\ EntrypointLeft /\ running = 0
    /\ ~job_shutdown
    /\ job_shutdown' = TRUE
    /\ IF HandlersRegistered
       THEN hooks' = Append(hooks, NewHook("callback")) /\ UNCHANGED unheard
       ELSE unheard' = (unheard \/ pc = "started") /\ UNCHANGED hooks
    /\ UNCHANGED <<pc, abort_reason, agent_tool_set, confVars, peerVars, convVars, toolVars,
                   shutdown_done, disconnects, running, effectVars, rateVars>>

(* --------------------------- Shutdown Pipeline ------------------------ *)
HookIds == 1..Len(hooks)
At(h, where) == h \in HookIds /\ hooks[h].pc = where
Resumes(h, where) == running = 0 /\ At(h, where)     \* the event loop resumes h
Continues(h, where) == running = h /\ At(h, where)   \* h runs on without yielding
SetHook(h, rec) == hooks' = [hooks EXCEPT ![h] = rec]

\* _do_shutdown's guard (inbound/outbound); agent.py runs the hook unguarded
DoShutdown(h) ==
    /\ Resumes(h, "scheduled")
    /\ IF entry = "agent"
       THEN /\ SetHook(h, [hooks[h] EXCEPT !.pc = "booking"])
            /\ running' = h
            /\ UNCHANGED shutdown_done
       ELSE IF shutdown_done
       THEN /\ SetHook(h, [hooks[h] EXCEPT !.pc = "returned"])
            /\ UNCHANGED <<running, shutdown_done>>
       ELSE /\ shutdown_done' = TRUE
            /\ IF entry = "outbound"
               THEN \* unified_shutdown_hook(..., sub_account_id=...): TypeError
                    SetHook(h, [hooks[h] EXCEPT !.pc = "raised"]) /\ UNCHANGED running
               ELSE SetHook(h, [hooks[h] EXCEPT !.pc = "booking"]) /\ running' = h
    /\ UNCHANGED <<pc, abort_reason, agent_tool_set, confVars, peerVars, convVars, toolVars,
                   disconnects, job_shutdown, unheard, effectVars, rateVars>>

\* a booking step that calls the booking API whether or not an intent was saved
HookBooking_Always(h) ==
    /\ Continues(h, "booking")
    /\ booking_calls' = Append(booking_calls, [by |-> h, intent |-> booking_intent])
    /\ SetHook(h, [hooks[h] EXCEPT !.pc = "await_booking", !.intent = booking_intent])
    /\ running' = 0
    /\ UNCHANGED <<pc, abort_reason, agent_tool_set, confVars, peerVars, convVars, toolVars,
                   shutdown_done, disconnects, job_shutdown, unheard,
                   notifications, call_logs, webhooks, active_status, rateVars>>

\* step 1: the booking decision
HookBooking(h) ==
    /\ Continues(h, "booking")
    /\ IF booking_intent # NoIntent
       THEN /\ booking_calls' = Append(booking_calls, [by |-> h, intent |-> booking_intent])
            /\ SetHook(h, [hooks[h] EXCEPT !.pc = "await_booking", !.intent = booking_intent])
            /\ running' = 0
            /\ UNCHANGED notifications
       ELSE /\ notifications' = Append(notifications, [by |-> h, kind |-> "no_booking"])
            /\ SetHook(h, [hooks[h] EXCEPT !.pc = "transcript"])
            /\ UNCHANGED <<running, booking_calls>>
    /\ UNCHANGED <<pc, abort_reason, agent_tool_set, confVars, peerVars, convVars, toolVars,
                   shutdown_done, disconnects, job_shutdown, unheard,
                   call_logs, webhooks, active_status, rateVars>>

\* how the awaited async_create_booking ends: {"success": True}, {"success":
\* False}, or an exception (get_cal_creds' int() runs before the callee's try)
BookingResults == {"success", "failure", "raise"}

\* the await is outside any try: an exception leaves unified_shutdown_hook
HookBookingReturn(h, result) ==
    /\ Resumes(h, "await_booking")
    /\ result \in BookingResults
    /\ IF result = "success"
       THEN /\ notifications' = Append(notifications, [by |-> h, kind |-> "booking_confirmed"])
            /\ SetHook(h, [hooks[h] EXCEPT !.pc = "transcript", !.status = "Booking Confirmed"])
            /\ running' = h
       ELSE IF result = "failure"
       THEN /\ SetHook(h, [hooks[h] EXCEPT !.pc = "transcript", !.status = "Booking Failed"])
            /\ running' = h
            /\ UNCHANGED notifications
       ELSE /\ SetHook(h, [hooks[h] EXCEPT !.pc = "raised"])
            /\ UNCHANGED <<running, notifications>>
    /\ UNCHANGED <<pc, abort_reason, agent_tool_set, confVars, peerVars, convVars, toolVars,
                   shutdown_done, disconnects, job_shutdown, unheard,
                   booking_calls, call_logs, webhooks, active_status, rateVars>>

\* step 2: transcript from agent.chat_ctx ("unavailable" when reading it throws)
TranscriptTexts == {"", "[USER] hello", "unavailable"}

HookTranscript(h, text) ==
    /\ Continues(h, "transcript")
    /\ text \in TranscriptTexts
    /\ SetHook(h, [hooks[h] EXCEPT !.pc = "sentiment", !.transcript = text])
    /\ UNCHANGED <<pc, abort_reason, agent_tool_set, confVars, peerVars, convVars, toolVars,
                   shutdown_done, disconnects, job_shutdown, unheard, running,
                   effectVars, rateVars>>

\* step 3: the sentiment request is made only for a usable transcript
HookSentiment(h) ==
    /\ Continues(h, "sentiment")
    /\ IF hooks[h].transcript # "" /\ hooks[h].transcript # "unavailable"
       THEN SetHook(h, [hooks[h] EXCEPT !.pc = "await_sentiment"]) /\ running' = 0
       ELSE SetHook(h, [hooks[h] EXCEPT !.pc = "recording"]) /\ UNCHANGED running
    /\ UNCHANGED <<pc, abort_reason, agent_tool_set, confVars, peerVars, convVars, toolVars,
                   shutdown_done, disconnects, job_shutdown, unheard,
                   effectVars, rateVars>>

SentimentReplies == {"positive", "frustrated", "raise"}

\* a sentiment step whose exception is not caught and leaves the hook
HookSentimentReturn_Propagates(h, reply) ==
    /\ Resumes(h, "await_sentiment")
    /\ reply \in SentimentReplies
    /\ IF reply = "raise"
       THEN /\ SetHook(h, [hooks[h] EXCEPT !.pc = "raised", !.sentiment_threw = TRUE])
            /\ UNCHANGED running
       ELSE /\ SetHook(h, [hooks[h] EXCEPT !.pc = "recording", !.sentiment = reply])
            /\ running' = h
    /\ UNCHANGED <<pc, abort_reason, agent_tool_set, confVars, peerVars, convVars, toolVars,
                   shutdown_done, disconnects, job_shutdown, unheard,
                   effectVars, rateVars>>

\* the classification returns a label or throws inside the try block
HookSentimentReturn(h, reply) ==
    /\ Resumes(h, "await_sentiment")
    /\ reply \in SentimentReplies
    /\ running' = h
    /\ IF reply = "raise"
       THEN SetHook(h, [hooks[h] EXCEPT !.pc = "recording", !.sentiment_threw = TRUE])
       ELSE SetHook(h, [hooks[h] EXCEPT !.pc = "recording", !.sentiment = reply])
    /\ UNCHANGED <<pc, abort_reason, agent_tool_set, confVars, peerVars, convVars, toolVars,
                   shutdown_done, disconnects, job_shutdown, unheard,
                   effectVars, rateVars>>

\* steps 4-6: cost and timestamps (no state), then stop the recording egress
HookRecording(h) ==
    /\ Continues(h, "recording")
    /\ IF egress_id
       THEN SetHook(h, [hooks[h] EXCEPT !.pc = "await_recording"]) /\ running' = 0
       ELSE SetHook(h, [hooks[h] EXCEPT !.pc = "active"]) /\ UNCHANGED running
    /\ UNCHANGED <<pc, abort_reason, agent_tool_set, confVars, peerVars, convVars, toolVars,
                   shutdown_done, disconnects, job_shutdown, unheard,
                   effectVars, rateVars>>

\* stop_egress succeeded (public URL) or failed (caught: empty URL)
HookRecordingReturn(h, stopped) ==
    /\ Resumes(h, "await_recording")
    /\ stopped \in BOOLEAN
    /\ running' = h
    /\ SetHook(h, [hooks[h] EXCEPT !.pc = "active",
                                   !.recording_url = IF stopped THEN "url" ELSE ""])
    /\ UNCHANGED <<pc, abort_reason, agent_tool_set, confVars, peerVars, convVars, toolVars,
                   shutdown_done, disconnects, job_shutdown, unheard,
                   effectVars, rateVars>>

\* step 7: upsert_active_call(..., "completed"); it swallows its own errors
HookActive(h) ==
    /\ Continues(h, "active")
    /\ active_status' = "completed"
    /\ SetHook(h, [hooks[h] EXCEPT !.pc = "webhook"])
    /\ UNCHANGED <<pc, abort_reason, agent_tool_set, confVars, peerVars, convVars, toolVars,
                   shutdown_done, disconnects, job_shutdown, unheard, running,
                   booking_calls, notifications, call_logs, webhooks, rateVars>>

\* step 8: the n8n webhook is posted from an executor thread when a URL is set
HookWebhook(h) ==
    /\ Continues(h, "webhook")
    /\ IF n8n_url
       THEN SetHook(h, [hooks[h] EXCEPT !.pc = "await_webhook"]) /\ running' = 0
       ELSE SetHook(h, [hooks[h] EXCEPT !.pc = "save"]) /\ UNCHANGED running
    /\ UNCHANGED <<pc, abort_reason, agent_tool_set, confVars, peerVars, convVars, toolVars,
                   shutdown_done, disconnects, job_shutdown, unheard,
                   effectVars, rateVars>>

WebhookPayload(h) ==
    [by |-> h, booked |-> booking_intent # NoIntent, sentiment |-> hooks[h].sentiment,
     summary |-> hooks[h].status]

HookWebhookReturn(h, delivered) ==
    /\ Resumes(h, "await_webhook")
    /\ delivered \in BOOLEAN
    /\ running' = h
    /\ webhooks' = IF delivered THEN Append(webhooks, WebhookPayload(h)) ELSE webhooks
    /\ SetHook(h, [hooks[h] EXCEPT !.pc = "save"])
    /\ UNCHANGED <<pc, abort_reason, agent_tool_set, confVars, peerVars, convVars, toolVars,
                   shutdown_done, disconnects, job_shutdown, unheard,
                   booking_calls, notifications, call_logs, active_status, rateVars>>

\* the keyword arguments handed to save_call_log
CallLogRecord(h, stored) ==
    [by |-> h, stored |-> stored, transcript |-> hooks[h].transcript,
     summary |-> hooks[h].status, sentiment |-> hooks[h].sentiment,
     recording_url |-> hooks[h].recording_url, was_booked |-> booking_intent # NoIntent]

\* what the persistence layer does with a record: store it or throw
SaveCallLogOutcomes == {TRUE, FALSE}

\* step 9: save_call_log.  agents/base.py wraps it in try/except; agent.py
\* calls db.save_call_log, whose six parameters do not include the analytics
\* keywords, outside any try: TypeError leaves the hook
HookSave(h, stored) ==
    /\ Continues(h, "save")
    /\ stored \in SaveCallLogOutcomes
    /\ running' = 0
    /\ IF entry = "agent"
       THEN /\ call_logs' = Append(call_logs, CallLogRecord(h, FALSE))
            /\ SetHook(h, [hooks[h] EXCEPT !.pc = "raised"])
       ELSE /\ call_logs' = Append(call_logs, CallLogRecord(h, stored))
            /\ SetHook(h, [hooks[h] EXCEPT !.pc = "done"])
    /\ UNCHANGED <<pc, abort_reason, agent_tool_set, confVars, peerVars, convVars, toolVars,
                   shutdown_done, disconnects, job_shutdown, unheard,
                   booking_calls, notifications, webhooks, active_status, rateVars>>

(* ---------------------------- specifications -------------------------- *)
HookStep(h) ==
    \/ DoShutdown(h)
    \/ HookBooking(h)
    \/ \E result \in BookingResults : HookBookingReturn(h, result)
    \/ \E text \in TranscriptTexts : HookTranscript(h, text)
    \/ HookSentiment(h)
    \/ \E reply \in SentimentReplies : HookSentimentReturn(h, reply)
    \/ HookRecording(h)
    \/ \E stopped \in BOOLEAN : HookRecordingReturn(h, stopped)
    \/ HookActive(h)
    \/ HookWebhook(h)
    \/ \E delivered \in BOOLEAN : HookWebhookReturn(h, delivered)
    \/ \E stored \in SaveCallLogOutcomes : HookSave(h, stored)

Setup ==
    \/ \E outcome \in {"ok", "timeout", "error"} : Entrypoint(outcome)
    \/ RegisterHandlers

\* session lifecycle of agents/inbound.py and agents/outbound.py:
\* start, booking intent, disconnect, job shutdown, finalize
InitBase == Init /\ entry \in {"inbound", "outbound"}

Next ==
    \/ Setup
    \/ \E st \in StartTimes : SaveBookingIntent(st, "Asha", caller_phone, "a@b.com", "")
    \/ ParticipantDisconnected
    \/ JobShutdown
    \/ \E h \in 1..(MaxDisconnects + 1) : HookStep(h)

Spec == InitBase /\ [][Next]_vars

\* the steps the event loop takes on its own: the entrypoint coroutine and the
\* shutdown coroutines are resumed whenever they are ready
ProgramStep == Setup \/ \E h \in 1..(MaxDisconnects + 1) : HookStep(h)

\* the same lifecycle with the event loop's scheduling; the job is shut down
\* at some point, while the caller's hang-up and the model's tool calls are
\* not forced to happen
SpecLive == InitBase /\ [][Next]_vars /\ WF_vars(ProgramStep) /\ WF_vars(JobShutdown)

\* the same lifecycle in the single-file agent.py
InitAgent == Init /\ entry = "agent"

NextAgent ==
    \/ Setup
    \/ \E st \in StartTimes : SaveBookingIntentAgent(st, "Asha", caller_phone, "")
    \/ ParticipantDisconnected
    \/ JobShutdown
    \/ \E h \in 1..(MaxDisconnects + 1) : HookStep(h)

SpecAgent == InitAgent /\ [][NextAgent]_vars

\* the conversation: speech-state events and committed user transcripts
NextGate ==
    \/ Setup
    \/ GreetingPlaybackStarted
    \/ AgentSpeechStarted
    \/ AgentSpeechFinished
    \/ AgentSpeechInterrupted
    \/ \E text \in Transcripts : UserSpeechCommitted(text)
    \/ ParticipantDisconnected

SpecGate == Init /\ [][NextGate]_vars

\* the tools the language model may call during a live session
NextTools ==
    \/ Setup
    \/ \E st \in StartTimes, n \in CallerNames, e \in Emails, nt \in NoteTexts :
          SaveBookingIntent(st, n, caller_phone, e, nt)
    \/ \E st \in StartTimes, n \in CallerNames, nt \in NoteTexts :
          SaveBookingIntentAgent(st, n, caller_phone, nt)
    \/ \E d \in Dates, reply \in CalendarReplies : CheckAvailability(d, reply)
    \/ \E number \in TransferNumbers, domain \in SipDomains, handles \in Handles,
          transport_ok \in BOOLEAN : TransferCall(number, domain, handles, transport_ok)
    \/ \E handles \in Handles, transport_ok \in BOOLEAN : EndCall(handles, transport_ok)

SpecTools == Init /\ [][NextTools]_vars

\* two sessions of one worker process: this session's speech events and
\* disconnect, the other session's transcripts and speech events
InitWorker == Init /\ entry \in {"inbound", "agent"}

NextWorker ==
    \/ Setup
    \/ AgentSpeechStarted
    \/ AgentSpeechFinished
    \/ ParticipantDisconnected
    \/ \E text \in Transcripts : PeerUserSpeechCommitted(text)
    \/ \E started \in BOOLEAN : PeerAgentSpeech(started)

SpecWorker == InitWorker /\ [][NextWorker]_vars

\* the rate limiter on its own: jobs for several phones arrive over time
InitRate ==
    /\ InitCommon
    /\ entry = "inbound" /\ egress_id = FALSE /\ n8n_url = FALSE
    /\ pc = "idle"

NextRate ==
    \/ \E d \in TickSteps : Tick(d)
    \/ \E p \in Phones : CallIsRateLimited(p)

SpecRate == InitRate /\ [][NextRate]_vars

(* ------------------------------ properties ---------------------------- *)
Settled == running = 0 /\ \A h \in HookIds : hooks[h].pc \in {"done", "returned", "raised"}
PipelineRuns == {h \in HookIds : hooks[h].pc \notin {"scheduled", "returned"}}
SanctionedAborts == {"rate_limited", "start_timeout", "start_error"}

\* C1: in inbound_entrypoint and outbound_entrypoint, once one or more
\* participant_disconnected events and the job shutdown have been delivered to
\* a session that was not turned away (rate limit, session.start failure) and
\* every shutdown coroutine has finished, the pipeline's side effects have run
\* exactly once: one call-log persistence, at most one booking call, at most
\* one booking/no-booking notification.
C1_ShutdownExactlyOnce ==
    ( /\ entry \in {"inbound", "outbound"}
      /\ pc \in {"live", "aborted"}
      /\ abort_reason \notin SanctionedAborts
      /\ ~unheard
      /\ disconnects >= 1 /\ job_shutdown
      /\ Settled )
    => ( /\ Len(call_logs) = 1
         /\ Len(booking_calls) <= 1
         /\ Len(notifications) <= 1 )

\* the guard of _do_shutdown as inbound_entrypoint runs it: one pipeline run
InboundShutdownOnce ==
    entry = "inbound" =>
        /\ Cardinality(PipelineRuns) <= 1
        /\ Len(call_logs) <= 1 /\ Len(booking_calls) <= 1 /\ Len(notifications) <= 1
        /\ (hooks # <<>> /\ Settled /\ \A h \in HookIds : hooks[h].pc # "raised")
           => Len(call_logs) = 1

\* C2: in agent.py's entrypoint the finalize side effects (booking call,
\* notification, save_call_log) run at most once per session, whatever the
\* order of participant disconnect and job shutdown.
C2_FinalizeOncePerSession ==
    /\ Cardinality(PipelineRuns) <= 1
    /\ Len(booking_calls) <= 1
    /\ Len(notifications) <= 1
    /\ Len(call_logs) <= 1

\* C3: a committed transcript that arrives while the agent-speaking flag is
\* true is rejected and leaves turn_count (and the user transcript log)
\* unchanged, whatever its text.
C3_EchoSuppression ==
    [][\A t \in Transcripts :
          (UserSpeechCommitted(t) /\ agent_is_speaking)
          => (turn_count' = turn_count /\ user_log' = user_log
              /\ gate_last'.verdict # "accept")]_vars

C3_Witness ==
    /\ gate_last.text = "tomorrow" /\ gate_last.speaking /\ gate_last.verdict = "echo"
    /\ turn_count = 1

\* C4: turn_count always equals the number of utterances the gate accepted
\* (one transcript-log task per acceptance), never decreases, and is left
\* unchanged by a rejected utterance.
C4_TurnMonotonicity ==
    /\ [](turn_count = user_log)
    /\ [][turn_count' >= turn_count]_vars
    /\ [][\A t \in Transcripts :
             (UserSpeechCommitted(t) /\ gate_last'.verdict # "accept")
             => turn_count' = turn_count]_vars

C4_Witness ==
    /\ turn_count = 2 /\ user_log = 2
    /\ gate_last.verdict = "filler" /\ ~gate_last.speaking

\* C5: the scripted wrap-up reply is requested exactly once, at the
\* max_turns-th accepted utterance, and not on any later accepted utterance.
C5_WrapUpFiresOnce ==
    /\ turn_count < max_turns => wrapups = <<>>
    /\ turn_count >= max_turns => wrapups = <<max_turns>>

IsSaveCall == tool_last.name = "save_booking_intent"

\* C6 as stated: save_booking_intent with an email that has no "@" or no dot
\* in the domain part returns the re-spell request and leaves booking_intent
\* as it was; with any other email it succeeds and sets booking_intent.
C6_RawEmailValidation ==
    (entry # "agent" /\ IsSaveCall) =>
        IF EmailLooksInvalid(tool_last.args.caller_email)
        THEN tool_last.result = "respell" /\ booking_intent = tool_last.before
        ELSE tool_last.result = "saved" /\ booking_intent # NoIntent

\* C6 amended: the validation is applied to normalize_email(caller_email).  A
\* call whose normalised email has no "@" or no dot after the last "@" returns
\* the re-spell request and leaves booking_intent as it was; every other call
\* succeeds and stores the normalised email.  agent.py's save_booking_intent
\* takes no email and always succeeds.
C6_NormalizedEmailValidation ==
    IsSaveCall =>
        IF entry = "agent"
        THEN tool_last.result = "saved" /\ booking_intent # NoIntent
        ELSE LET email == normalize_email(tool_last.args.caller_email)
             IN  IF ~Contains(email, "@") \/ ~Contains(AfterLastAt(email), ".")
                 THEN tool_last.result = "respell" /\ booking_intent = tool_last.before
                 ELSE /\ tool_last.result = "saved"
                      /\ booking_intent # NoIntent
                      /\ booking_intent.caller_email = email

C6_Witness ==
    /\ entry # "agent" /\ IsSaveCall
    /\ tool_last.args.caller_email = "not-an-email"
    /\ tool_last.result = "respell"
    /\ tool_last.before # NoIntent /\ booking_intent = tool_last.before

C8_CancelAppointmentExposed ==
    pc = "live" => "cancel_appointment" \in agent_tool_set

\* C9 as stated: "unknown" is never rejected; for every other phone a call is
\* admitted while fewer than 5 admitted calls lie in the window and rejected
\* once 5 do (so the 6th call within one window is rejected).
C9_OnlyUnknownExempt ==
    rate_last.phone # NULL =>
        IF rate_last.phone = "unknown" THEN ~rate_last.limited
        ELSE rate_last.limited <=> (rate_last.prior >= 5)

\* C9 amended: "unknown" and "demo" are never rejected; for every other
\* phone the first 5 calls within one window are admitted and a call made
\* while 5 admitted calls lie in the window is rejected.
C9_RateLimit ==
    rate_last.phone # NULL =>
        IF rate_last.phone \in {"unknown", "demo"} THEN ~rate_last.limited
        ELSE rate_last.limited <=> (rate_last.prior >= 5)

C9_Witness ==
    /\ rate_last.phone = "+911" /\ rate_last.limited /\ rate_last.prior = 5
    /\ Len(admitted["+911"]) = 5 /\ rate_calls >= 6

\* C10: when the sentiment classification throws in a finalize run of
\* agents/base.py, that run still reaches save_call_log and hands it
\* sentiment = "unknown".
C10_SentimentFailureStillSaves ==
    \A h \in HookIds :
        (entry # "agent" /\ hooks[h].sentiment_threw /\ hooks[h].pc \in {"done", "raised"})
        => \E i \in 1..Len(call_logs) :
              call_logs[i].by = h /\ call_logs[i].sentiment = "unknown"

C10_Witness ==
    \E h \in HookIds :
        /\ hooks[h].sentiment_threw /\ hooks[h].pc = "done"
        /\ \E i \in 1..Len(call_logs) :
              /\ call_logs[i].by = h /\ call_logs[i].stored
              /\ call_logs[i].sentiment = "unknown"

HookEnded(h) == hooks[h].pc \in {"done", "raised"}
LogsBy(h) == {i \in 1..Len(call_logs) : call_logs[i].by = h}
BookingsBy(h) == {i \in 1..Len(booking_calls) : booking_calls[i].by = h}
NotificationsBy(h) == {i \in 1..Len(notifications) : notifications[i].by = h}

\* C11: every run of unified_shutdown_hook that has ended, normally or by an
\* exception, has invoked save_call_log, whichever earlier step failed.
C11_AlwaysAttemptsPersistence ==
    \A h \in HookIds : HookEnded(h) => LogsBy(h) # {}

\* C12: no run of unified_shutdown_hook ends by raising to its caller.
C12_NeverRaises ==
    \A h \in HookIds : hooks[h].pc # "raised"

\* C13: save_booking_intent never calls the booking API; the booking API is
\* called only by the booking step of a finalize run, at most once per run,
\* only when booking_intent is non-null as the run starts, and with the intent
\* the most recent successful save_booking_intent stored.
C13_DeferredBooking ==
    /\ [][(tool_calls' # tool_calls) => (booking_calls' = booking_calls)]_vars
    /\ [][(booking_calls' # booking_calls) =>
            \E h \in HookIds :
                /\ hooks[h].pc = "booking" /\ running = h
                /\ hooks'[h].pc = "await_booking"
                /\ BookingsBy(h) = {}
                /\ booking_intent # NoIntent
                /\ tool_last.name = "save_booking_intent" /\ tool_last.result = "saved"
                /\ booking_calls' = Append(booking_calls,
                      [by |-> h,
                       intent |-> [start_time |-> tool_last.args.start_time,
                                   caller_name |-> tool_last.args.caller_name,
                                   caller_phone |-> tool_last.args.caller_phone,
                                   caller_email |-> normalize_email(tool_last.args.caller_email),
                                   notes |-> tool_last.args.notes]])]_vars

C13_Witness ==
    /\ Len(booking_calls) = 1 /\ tool_calls = 2
    /\ tool_last.before # NoIntent /\ tool_last.before.start_time = "T10"
    /\ booking_calls[1].intent.start_time = "T11"
    /\ hooks[booking_calls[1].by].pc = "done"

\* C14: a finalize run that is past its booking step has triggered exactly
\* one outcome notification: booking_confirmed when the booking succeeded,
\* booking_failed when it failed, no_booking when there was no intent.
C14_OneOutcomeNotification ==
    \A h \in HookIds :
        hooks[h].pc \notin {"scheduled", "returned", "booking", "await_booking", "raised"}
        => /\ Cardinality(NotificationsBy(h)) = 1
           /\ \A i \in NotificationsBy(h) :
                 notifications[i].kind =
                    CASE hooks[h].status = "Booking Confirmed" -> "booking_confirmed"
                      [] hooks[h].status = "Booking Failed" -> "booking_failed"
                      [] OTHER -> "no_booking"

\* C15: while a session is running, the agent-speaking flag is true if and
\* only if the agent's speech playback is in progress, the greeting played
\* during session start and the state after a participant disconnect included.
C15_FlagTracksPlayback ==
    pc \in {"started", "live"} => (agent_is_speaking <=> playing)

\* the text the filler rule compares: trimmed, lower-cased, trailing periods removed
FillerKey(text) == RStripChar(Lower(Strip(text)), ".")

\* the utterances whose filler key is one of the three named words
NamedFillers == {t \in Transcripts : FillerKey(t) \in {"okay", "haan", "ji"}}

\* C16: a committed utterance whose trimmed, lower-cased, period-stripped text
\* is "okay", "haan" or "ji" is rejected and leaves turn_count unchanged,
\* whether or not the agent is speaking and whatever the turn count is.
C16_FillerRejection ==
    [][\A t \in NamedFillers :
          UserSpeechCommitted(t)
          => (turn_count' = turn_count /\ gate_last'.verdict \in {"echo", "short", "filler"})]_vars

C16_Witness ==
    /\ gate_last.text = "Okay." /\ ~gate_last.speaking /\ gate_last.verdict = "filler"
    /\ turn_count = 1

\* C17: the gate accepts a committed utterance if and only if the agent is not
\* speaking, the trimmed text has at least 3 characters and its filler key is
\* not a filler word; an accepted utterance is counted as one turn.
C17_GateAcceptsIff ==
    /\ [](gate_last.text # NULL =>
            (gate_last.verdict = "accept" <=>
                /\ ~gate_last.speaking
                /\ Len(Strip(gate_last.text)) >= 3
                /\ FillerKey(gate_last.text) \notin FILLER_WORDS))
    /\ [][\A t \in Transcripts :
             (UserSpeechCommitted(t) /\ gate_last'.verdict = "accept")
             => turn_count' = turn_count + 1]_vars

C17_Witness ==
    /\ gate_last.text = "yes please" /\ ~gate_last.speaking /\ gate_last.verdict = "accept"
    /\ turn_count = 3 /\ interrupt_count = 1

\* C18: the agent-speech-started, agent-speech-finished and
\* participant-disconnected events of one session never change the verdict
\* the other session's Transcript Gate gives to a transcript, nor the other
\* session's turn count.
C18_CrossCallIsolation ==
    [][(AgentSpeechStarted \/ AgentSpeechFinished \/ ParticipantDisconnected)
       => /\ peer_turn_count' = peer_turn_count
          /\ \A t \in Transcripts :
                GateTable[t, agent_is_speaking'] = GateTable[t, agent_is_speaking]]_vars

IsAvailabilityCall == tool_last.name = "check_availability"
ToolMessages == {"fallback", "no_slots", "slot_list"}

\* C19: check_availability always returns a message to the conversation, and
\* when the calendar is unreachable or the slot query fails that message is
\* the spoken fallback, not a slot list and not the "no slots" message.
C19_AvailabilityFallback ==
    IsAvailabilityCall =>
        /\ tool_last.result \in ToolMessages
        /\ tool_last.args.calendar \in {"unreachable", "bad_config"}
           => tool_last.result = "fallback"

C19_Witness ==
    /\ IsAvailabilityCall /\ tool_last.args.calendar = "unreachable"
    /\ tool_last.result = "fallback" /\ tool_calls = 2

\* C20: check_availability returns the slot-list message whenever the calendar
\* query returns a non-empty list, and the "no slots" message exactly when the
\* query returns an empty list.
C20_AvailabilityMessages ==
    IsAvailabilityCall =>
        LET q == GetAvailableSlots(tool_last.args.calendar)
        IN  /\ (~q.raised /\ q.slots # <<>>) => tool_last.result = "slot_list"
            /\ tool_last.result = "no_slots" <=> (~q.raised /\ q.slots = <<>>)

\* a tool invocation has just returned
ToolReturned(name) == tool_calls' = tool_calls + 1 /\ tool_last'.name = name

\* transfer_call found one of its four values missing
TransferUnset(args) ==
    \/ args.number = "" \/ ~args.handles.ctx_api
    \/ ~args.handles.room_name \/ ~args.handles.sip_identity

\* C21: transfer_call and end_call always return a string.  transfer_call
\* returns its failure string when the transport request fails, and sends no
\* request and returns the failure string when the fallback destination, the
\* API handle, the room name or the SIP identity is not set; end_call returns
\* "Call ended." whether or not the hangup request fails; neither tool changes
\* booking_intent.
C21_TransferEndNeverRaise ==
    /\ [][ToolReturned("transfer_call") =>
            /\ tool_last'.result \in {TRANSFER_OK, TRANSFER_FAILED}
            /\ ~tool_last'.args.transport_ok => tool_last'.result = TRANSFER_FAILED
            /\ TransferUnset(tool_last'.args)
               => (sip_requests' = sip_requests /\ tool_last'.result = TRANSFER_FAILED)
            /\ booking_intent' = booking_intent]_vars
    /\ [][ToolReturned("end_call") =>
            /\ tool_last'.result = CALL_ENDED
            /\ booking_intent' = booking_intent]_vars

C21_Witness ==
    /\ tool_last.name = "transfer_call" /\ ~tool_last.args.transport_ok
    /\ ~TransferUnset(tool_last.args)
    /\ tool_last.result = TRANSFER_FAILED
    /\ Len(sip_requests) = 1 /\ sip_requests[1].transfer_to = "sip:+9199@vobiz"
    /\ booking_intent # NoIntent

C21_WitnessEndCall ==
    /\ tool_last.name = "end_call" /\ ~tool_last.args.transport_ok
    /\ Len(sip_requests) = 2 /\ sip_requests[2].tool = "end_call"
    /\ tool_last.result = CALL_ENDED

WebhooksBy(h) == {i \in 1..Len(webhooks) : webhooks[i].by = h}

\* the finalize run has made its booking decision
PastBookingDecision(h) == hooks[h].pc \notin {"scheduled", "returned", "booking"}

\* C22: booking_intent is not written once a finalize run has begun, so a run
\* reads the same booking_intent at its booking decision, in its webhook
\* payload and in the was_booked flag it persists.
C22_NoIntentWriteDuringFinalize ==
    \A h \in HookIds :
        PastBookingDecision(h) =>
            /\ \A i \in WebhooksBy(h) : webhooks[i].booked = (hooks[h].intent # NoIntent)
            /\ \A i \in LogsBy(h) : call_logs[i].was_booked = (hooks[h].intent # NoIntent)

LimitedPhones == Phones \ ExemptPhones

\* admitted calls of a phone whose time lies in the window that opens at t0
AdmittedInWindow(phone, t0) ==
    {j \in 1..Len(admitted[phone]) :
        admitted[phone][j] >= t0 /\ admitted[phone][j] - t0 < RATE_LIMIT_WINDOW}

C24_DisconnectReachesFinalize ==
    (disconnects >= 1 /\ pc \in {"started", "live"}) ~> (PipelineRuns # {})

\* the same for a disconnect that arrives once the handlers are registered
DisconnectHeardReachesFinalize ==
    (\E h \in HookIds : hooks[h].origin = "disconnect") ~> (PipelineRuns # {})

\* C25: a finalize run persists its call-log record before it delivers its
\* webhook event (booking, transcript, sentiment, cost, recording stop,
\* persistence, webhook, in this order): every delivered webhook event belongs
\* to a run whose save_call_log has already been invoked.
C25_SaveBeforeWebhook ==
    \A i \in 1..Len(webhooks) : LogsBy(webhooks[i].by) # {}

\* C26: agent_speech_started sets the agent-speaking flag to true and
\* agent_speech_finished sets it to false, whatever it was before;
\* agent_speech_interrupted adds one to interrupt_count and leaves the
\* agent-speaking flag and turn_count unchanged; none of the three changes
\* turn_count, and interrupt_count changes in no other way.
C26_SpeechTrackerTransitions ==
    /\ [][AgentSpeechStarted =>
            (agent_is_speaking' /\ turn_count' = turn_count
             /\ interrupt_count' = interrupt_count)]_vars
    /\ [][AgentSpeechFinished =>
            (~agent_is_speaking' /\ turn_count' = turn_count
             /\ interrupt_count' = interrupt_count)]_vars
    /\ [][(interrupt_count' # interrupt_count) =>
            /\ interrupt_count' = interrupt_count + 1
            /\ agent_is_speaking' = agent_is_speaking
            /\ turn_count' = turn_count]_vars

C26_Witness ==
    /\ interrupt_count = 1 /\ agent_is_speaking /\ playing
    /\ turn_count = 1 /\ gate_last.verdict = "echo"

StartFailures == {"start_timeout", "start_error"}

\* C27: when session.start times out or raises, the entrypoint ends without
\* registering the transcript, speech and disconnect handlers or the shutdown
\* callback: no transcript or speech event is handled, no turn is counted, and
\* a later disconnect or job shutdown starts no finalize run and causes no
\* booking, notification, webhook or call-log write.
C27_StartAbortNoState ==
    abort_reason \in StartFailures =>
        /\ pc = "aborted"
        /\ \A t \in Transcripts : ~ENABLED UserSpeechCommitted(t)
        /\ ~ENABLED AgentSpeechStarted /\ ~ENABLED AgentSpeechInterrupted
        /\ turn_count = 0 /\ user_log = 0
        /\ hooks = <<>>
        /\ booking_calls = <<>> /\ notifications = <<>>
        /\ call_logs = <<>> /\ webhooks = <<>>

C27_Witness ==
    /\ entry = "inbound" /\ abort_reason = "start_error"
    /\ disconnects = 1 /\ job_shutdown
    /\ hooks = <<>> /\ call_logs = <<>>

\* C28: in every call-log record a finalize run persists, was_booked is true
\* only if that run's booking call returned success: was_booked = true never
\* comes with the summary "Booking Failed" or "No booking".
C28_WasBookedMeansBooked ==
    \A i \in 1..Len(call_logs) :
        call_logs[i].was_booked => call_logs[i].summary = "Booking Confirmed"

\* one call of is_rate_limited for phone p has just returned
RateCallReturned(p) == rate_calls' = rate_calls + 1 /\ rate_last'.phone = p

\* C29: is_rate_limited records a timestamp only for an admitted call; a
\* rejected call leaves the phone's timestamps as they were apart from the
\* pruning of expired ones; and a call made when the oldest of the recorded
\* admissions is at least one window old is admitted, however many calls were
\* rejected since.
C29_SlidingWindow ==
    /\ [][\A p \in LimitedPhones :
            (RateCallReturned(p) /\ rate_last'.limited) =>
                /\ call_timestamps'[p] = Prune(call_timestamps[p], now)
                /\ Len(call_timestamps'[p]) = RATE_LIMIT_CALLS
                /\ admitted' = admitted]_vars
    /\ [][\A p \in LimitedPhones :
            (RateCallReturned(p) /\ ~rate_last'.limited) =>
                /\ call_timestamps'[p] = Append(Prune(call_timestamps[p], now), now)
                /\ \A q \in Phones \ {p} : call_timestamps'[q] = call_timestamps[q]]_vars
    /\ [][\A p \in LimitedPhones :
            ( /\ RateCallReturned(p)
              /\ call_timestamps[p] # <<>>
              /\ now - Head(call_timestamps[p]) >= RATE_LIMIT_WINDOW )
            => ~rate_last'.limited]_vars

C29_Witness ==
    /\ rate_last.phone = "+911" /\ ~rate_last.limited
    /\ now = RATE_LIMIT_WINDOW /\ rate_calls = 7
    /\ Len(admitted["+911"]) = 6
    /\ call_timestamps["+911"] = <<RATE_LIMIT_WINDOW>>

\* an address that needs no clean-up: lower case, no spaces, an "@" and a dot
\* in the domain part
WellFormedEmail(email) ==
    /\ email = Lower(email) /\ ~Contains(email, " ")
    /\ Contains(email, "@") /\ Contains(AfterLastAt(email), ".")

\* C30: normalize_email is idempotent, and it returns a well-formed lower-case
\* address without spaces unchanged, so that after a successful
\* save_booking_intent the stored caller_email is the valid address the caller
\* gave.
C30_NormalizeEmailIdempotent ==
    (entry # "agent" /\ IsSaveCall) =>
        LET given == tool_last.args.caller_email
            once == normalize_email(given)
        IN  /\ normalize_email(once) = once
            /\ WellFormedEmail(given) =>
                  (tool_last.result = "saved" /\ booking_intent.caller_email = given)

====
